---------------------------- MODULE Spec2Model ----------------------------
(***************************************************************************)
(* A model of the kingpin command-line parser: the lexer and its token     *)
(* cursor (src/lexer.go) and the Application (src/app.go), with the flag,  *)
(* argument and command groups the Application drives.                     *)
(*                                                                         *)
(* A Go string is a sequence of one-character strings, so that prefixes,   *)
(* splitting on '=' and joining with ' ' are computed, not assumed.        *)
(***************************************************************************)
EXTENDS Naturals, Sequences, FiniteSets, TLC

VARIABLES
    argv,      \* lexer run: the raw arguments handed to Tokenize
    cursor,    \* lexer run: the current Tokens value
    tok,       \* lexer run: the token last returned by Next or Peek
    saved,     \* lexer run: the cursor value held before the last Next
    trail,     \* lexer run: the operations applied so far, oldest first
    app,       \* the Application: its groups, the initialized latch
    values,    \* the bound value slots of the clauses, by clause
    result,    \* what the last Parse call did and returned
    parses,    \* Parse calls made so far
    exited     \* a dispatch hook has ended the process (os.Exit)

lexvars == <<argv, cursor, tok, saved, trail>>

appvars == <<app, values, result, parses, exited>>

vars == <<argv, cursor, tok, saved, trail, app, values, result, parses, exited>>

(***************************************************************************)
(* Strings                                                                 *)
(***************************************************************************)
Dash == "-"
Equals == "="

\* strings.HasPrefix(s, p)
HasPrefix(s, p) ==
    /\ Len(s) >= Len(p)
    /\ \A i \in 1..Len(p) : s[i] = p[i]

\* s[n:] of Go, for 0 <= n <= len(s)
Drop(s, n) == IF n >= Len(s) THEN <<>> ELSE SubSeq(s, n + 1, Len(s))

\* strings.SplitN(s, "=", 2): at most two parts, split at the first '='
SplitN2(s) ==
    LET at == {i \in 1..Len(s) : s[i] = Equals}
    IN  IF at = {} THEN <<s>>
        ELSE LET i == CHOOSE k \in at : \A m \in at : k <= m
             IN  <<SubSeq(s, 1, i - 1), Drop(s, i)>>

(***************************************************************************)
(* src/lexer.go                                                            *)
(***************************************************************************)
TokenShort == "TokenShort"
TokenLong == "TokenLong"
TokenArg == "TokenArg"
TokenEOF == "TokenEOF"

Token(type, value) == [Type |-> type, Value |-> value]

TokenEOFMarker == Token(TokenEOF, <<>>)

IsFlag(t) == t.Type = TokenShort \/ t.Type = TokenLong

IsEOF(t) == t.Type = TokenEOF

\* Token.String
TokenString(t) ==
    CASE t.Type = TokenShort -> <<Dash>> \o t.Value
      [] t.Type = TokenLong -> <<Dash, Dash>> \o t.Value
      [] t.Type = TokenArg -> t.Value
      [] t.Type = TokenEOF -> <<"<", "E", "O", "F", ">">>

\* Tokens.Next: the pair (token, rest)
TokensNext(t) ==
    IF Len(t) = 0 THEN <<TokenEOFMarker, <<>>>>
    ELSE <<t[1], Tail(t)>>

\* A push-back that forgets the end-of-stream test.
TokensReturnNoEOFTest(t, token) == <<token>> \o t

\* Tokens.Return
TokensReturn(t, token) ==
    IF token.Type = TokenEOF THEN t
    ELSE <<token>> \o t

\* Tokens.Peek
TokensPeek(t) ==
    IF Len(t) = 0 THEN TokenEOFMarker
    ELSE t[1]

\* A lexer that leaves an inline "=value" inside the long flag's name.
TokenizeArgNoSplit(arg) ==
    IF HasPrefix(arg, <<Dash, Dash>>) THEN <<Token(TokenLong, Drop(arg, 2))>>
    ELSE IF HasPrefix(arg, <<Dash>>)
    THEN [i \in 1..(Len(arg) - 1) |-> Token(TokenShort, <<arg[i + 1]>>)]
    ELSE <<Token(TokenArg, arg)>>

\* The tokens of one raw argument (the body of Tokenize's loop).
TokenizeArg(arg) ==
    IF HasPrefix(arg, <<Dash, Dash>>)
    THEN LET parts == SplitN2(Drop(arg, 2))
         IN  <<Token(TokenLong, parts[1])>>
               \o (IF Len(parts) = 2 THEN <<Token(TokenArg, parts[2])>> ELSE <<>>)
    ELSE IF HasPrefix(arg, <<Dash>>)
    THEN [i \in 1..(Len(arg) - 1) |-> Token(TokenShort, <<arg[i + 1]>>)]
    ELSE <<Token(TokenArg, arg)>>

RECURSIVE TokenizeFrom(_, _)
TokenizeFrom(args, i) ==
    IF i > Len(args) THEN <<>>
    ELSE TokenizeArg(args[i]) \o TokenizeFrom(args, i + 1)

\* A lexer that keeps a cluster of short flags as one token.
TokenizeWholeCluster(args) ==
    [i \in 1..Len(args) |->
        IF HasPrefix(args[i], <<Dash>>)
        THEN Token(TokenShort, Drop(args[i], 1))
        ELSE Token(TokenArg, args[i])]

\* Tokenize
Tokenize(args) == TokenizeFrom(args, 1)

(***************************************************************************)
(* Clauses and groups.  The flag, argument and command groups are declared *)
(* and resolved by code that src/ does not hold (only src/app.go's calls   *)
(* of it): they follow sections 3 and 4.2-4.4 of the specification.        *)
(***************************************************************************)
Space == " "
HelpWord == <<"h", "e", "l", "p">>
CommandWord == <<"c", "o", "m", "m", "a", "n", "d">>
TrueWord == <<"t", "r", "u", "e">>
FalseWord == <<"f", "a", "l", "s", "e">>

\* An error value: its kind and the text it names ("none": the nil error).
Err(kind, text) == [kind |-> kind, text |-> text]

NoErr == Err("none", <<>>)

\* A flag clause.  shorthand <<>> is Go's rune 0 (no short alias) and
\* defaultValue <<>> is Go's "" (no default).  dispatch is "none", "log"
\* (a hook that returns nil) or "exit" (a hook that ends the process).
FlagClause(name, shorthand, required, defaultValue, isBool, dispatch) ==
    [name |-> name, shorthand |-> shorthand, required |-> required,
     defaultValue |-> defaultValue, isBool |-> isBool, dispatch |-> dispatch]

ArgClause(name, required, variadic, dispatch) ==
    [name |-> name, required |-> required, variadic |-> variadic,
     dispatch |-> dispatch]

\* A command clause with empty groups of its own.
CmdClause(name, dispatch) ==
    [name |-> name, dispatch |-> dispatch, flags |-> <<>>, args |-> <<>>,
     commands |-> <<>>, commandOrder |-> <<>>]

\* The identity of a clause's value slot: its kind, the command path of the
\* group that owns it (<<>>: the Application) and its name or position.
FlagId(path, name) == <<"flag", path, name>>
ArgId(path, i) == <<"arg", path, i>>
CmdId(path, name) == <<"cmd", path, name>>

\* flagGroup.Flag / argGroup.Arg / cmdGroup.Command on one group: the clause
\* joins the insertion-ordered sequence (and, for a command, the name map).
GroupFlag(node, fc) == [node EXCEPT !.flags = Append(@, fc)]

GroupArg(node, ac) == [node EXCEPT !.args = Append(@, ac)]

GroupCommand(node, cc) ==
    [node EXCEPT !.commands = (cc.name :> cc) @@ @,
                 !.commandOrder = Append(@, cc.name)]

\* The same, on the group of the command at `path` below `node`.
RECURSIVE FlagAt(_, _, _)
FlagAt(node, path, fc) ==
    IF path = <<>> THEN GroupFlag(node, fc)
    ELSE [node EXCEPT !.commands[Head(path)] = FlagAt(@, Tail(path), fc)]

RECURSIVE ArgAt(_, _, _)
ArgAt(node, path, ac) ==
    IF path = <<>> THEN GroupArg(node, ac)
    ELSE [node EXCEPT !.commands[Head(path)] = ArgAt(@, Tail(path), ac)]

RECURSIVE CommandAt(_, _, _)
CommandAt(node, path, cc) ==
    IF path = <<>> THEN GroupCommand(node, cc)
    ELSE [node EXCEPT !.commands[Head(path)] = CommandAt(@, Tail(path), cc)]

\* The group owner at `path` below `node`.
RECURSIVE NodeAt(_, _)
NodeAt(node, path) ==
    IF path = <<>> THEN node ELSE NodeAt(node.commands[Head(path)], Tail(path))

\* Whether `path` names a declared command chain below `node`.
RECURSIVE HasPath(_, _)
HasPath(node, path) ==
    IF path = <<>> THEN TRUE
    ELSE /\ Head(path) \in DOMAIN node.commands
         /\ HasPath(node.commands[Head(path)], Tail(path))

\* argGroup.have / cmdGroup.have
ArgsHave(node) == Len(node.args) > 0

CmdsHave(node) == Len(node.commandOrder) > 0

\* flagGroup.init: the specification states no shape rule for a flag group.
FlagGroupInit(flags) == NoErr

\* argGroup.init: required arguments are a prefix, a variadic one is last.
ArgGroupInit(args) ==
    IF \E i \in 1..Len(args) : args[i].variadic /\ i < Len(args)
    THEN Err("VariadicNotLast", <<>>)
    ELSE IF \E i, j \in 1..Len(args) : i < j /\ ~args[i].required /\ args[j].required
    THEN Err("RequiredAfterOptional", <<>>)
    ELSE NoErr

\* cmdGroup.init: the specification states no shape rule for the group itself.
CmdGroupInit(node) == NoErr

\* The first real error of a sequence of errors, or NoErr.
FirstErr(errs) ==
    LET bad == {i \in 1..Len(errs) : errs[i].kind # "none"}
    IN  IF bad = {} THEN NoErr
        ELSE errs[CHOOSE i \in bad : \A j \in bad : i <= j]

\* CmdClause.init: a command has arguments or subcommands, not both; then its
\* own groups and, recursively, its subcommands.
RECURSIVE CmdInit(_)
CmdInit(cmd) ==
    IF ArgsHave(cmd) /\ CmdsHave(cmd) THEN Err("ConflictingGrammar", cmd.name)
    ELSE FirstErr(<<FlagGroupInit(cmd.flags), CmdGroupInit(cmd), ArgGroupInit(cmd.args)>>
                    \o [i \in 1..Len(cmd.commandOrder) |->
                          CmdInit(cmd.commands[cmd.commandOrder[i]])])

(***************************************************************************)
(* Resolution.  A parse threads the record                                 *)
(*   [toks, vals, log, err, exit]                                          *)
(* through the groups: the cursor, the value slots, the events so far      *)
(* (tokens consumed, clauses bound, hooks invoked, commands selected), the *)
(* error raised and whether a hook has ended the process.                  *)
(*                                                                         *)
(* CHOOSE r \in {F(x) : x \in {e}} : TRUE is F applied to the value of e:   *)
(* e is evaluated once, as the result of a Go call is before the           *)
(* statements that use it.                                                 *)
(***************************************************************************)
Event(e, id, token) == [e |-> e, id |-> id, tok |-> token]

Halted(st) == st.err.kind # "none" \/ st.exit

Fail(st, err) == [st EXCEPT !.err = err]

\* Take the next token off the cursor.
Consume(st) ==
    [st EXCEPT !.toks = TokensNext(st.toks)[2],
               !.log = Append(@, Event("consume", <<>>, TokensNext(st.toks)[1]))]

\* The value converters the engine provides: boolean and string.
Convert(isBool, raw) ==
    IF ~isBool THEN [ok |-> TRUE, val |-> [str |-> raw]]
    ELSE IF raw = TrueWord THEN [ok |-> TRUE, val |-> [bool |-> TRUE]]
    ELSE IF raw = FalseWord THEN [ok |-> TRUE, val |-> [bool |-> FALSE]]
    ELSE [ok |-> FALSE, val |-> [str |-> raw]]

\* Bind a clause's value slot, then invoke its dispatch hook if it has one.
BindAndDispatch(st, id, val, dispatch) ==
    LET bound == [st EXCEPT !.vals = (id :> val) @@ @,
                            !.log = Append(@, Event("bind", id, TokenEOFMarker))]
    IN  IF dispatch = "none" THEN bound
        ELSE [bound EXCEPT !.log = Append(@, Event("hook", id, TokenEOFMarker)),
                           !.exit = (dispatch = "exit")]

\* The clause a flag token names: by long name or by short alias (0: none).
FlagIndex(flags, token) ==
    LET hits == {i \in 1..Len(flags) :
                    IF token.Type = TokenLong THEN flags[i].name = token.Value
                    ELSE flags[i].shorthand = token.Value}
    IN  IF hits = {} THEN 0 ELSE CHOOSE i \in hits : \A j \in hits : i <= j

\* One flag token and, for a flag that takes one, its value token.
FlagOne(flags, path, st) ==
    LET token == TokensPeek(st.toks)
        st1 == Consume(st)
        i == FlagIndex(flags, token)
    IN  IF i = 0 THEN Fail(st1, Err("UnknownFlag", TokenString(token)))
        ELSE IF flags[i].isBool
        THEN BindAndDispatch(st1, FlagId(path, flags[i].name),
                             Convert(TRUE, TrueWord).val, flags[i].dispatch)
        ELSE IF IsEOF(TokensPeek(st1.toks))
        THEN Fail(st1, Err("MissingValue", flags[i].name))
        ELSE LET conv == Convert(FALSE, TokenString(TokensPeek(st1.toks)))
                 st2 == Consume(st1)
             IN  IF ~conv.ok THEN Fail(st2, Err("ConversionError", flags[i].name))
                 ELSE BindAndDispatch(st2, FlagId(path, flags[i].name),
                                      conv.val, flags[i].dispatch)

\* The scan: flags are taken while the next token is a flag token.  Returns
\* the threaded record and the names of the flags the scan bound.
RECURSIVE FlagScan(_, _, _, _)
FlagScan(flags, path, st, seen) ==
    IF Halted(st) \/ ~IsFlag(TokensPeek(st.toks)) THEN [st |-> st, seen |-> seen]
    ELSE LET i == FlagIndex(flags, TokensPeek(st.toks))
             Rest(st1) == FlagScan(flags, path, st1,
                                   IF i = 0 THEN seen ELSE seen \cup {flags[i].name})
         IN  CHOOSE r \in {Rest(x) : x \in {FlagOne(flags, path, st)}} : TRUE

\* A flag group that never applies a default.
FlagDefaultsNone(flags, path, st, seen, i) == st

\* The declared defaults of the flags the scan did not bind, in declared order.
RECURSIVE FlagDefaults(_, _, _, _, _)
FlagDefaults(flags, path, st, seen, i) ==
    IF Halted(st) \/ i > Len(flags) THEN st
    ELSE IF flags[i].defaultValue = <<>> \/ flags[i].name \in seen
    THEN FlagDefaults(flags, path, st, seen, i + 1)
    ELSE LET conv == Convert(flags[i].isBool, flags[i].defaultValue)
             Rest(st1) == FlagDefaults(flags, path, st1, seen, i + 1)
         IN  IF ~conv.ok THEN Fail(st, Err("ConversionError", flags[i].name))
             ELSE CHOOSE r \in {Rest(x) : x \in
                      {[st EXCEPT !.vals = (FlagId(path, flags[i].name) :> conv.val) @@ @]}} :
                          TRUE

\* flagGroup.parse(tokens, helpRequested)
FlagGroupParse(flags, path, st, helpRequested) ==
    LET AfterScan(scan) ==
            LET missing == {i \in 1..Len(flags) :
                               flags[i].required /\ flags[i].name \notin scan.seen}
            IN  IF Halted(scan.st) THEN scan.st
                ELSE IF ~helpRequested /\ missing # {}
                THEN Fail(scan.st,
                          Err("MissingRequiredFlag",
                              flags[CHOOSE i \in missing : \A j \in missing : i <= j].name))
                ELSE FlagDefaults(flags, path, scan.st, scan.seen, 1)
    IN  CHOOSE r \in {AfterScan(x) : x \in {FlagScan(flags, path, st, {})}} : TRUE

\* All remaining tokens, taken for a variadic argument.
RECURSIVE ConsumeAll(_)
ConsumeAll(st) ==
    IF st.toks = <<>> THEN st
    ELSE CHOOSE r \in {ConsumeAll(x) : x \in {Consume(st)}} : TRUE

\* argGroup.parse(tokens), from the i-th declared argument on.
RECURSIVE ArgScan(_, _, _, _)
ArgScan(args, path, st, i) ==
    IF Halted(st) \/ i > Len(args) THEN st
    ELSE IF IsEOF(TokensPeek(st.toks))
    THEN IF args[i].required
         THEN Fail(st, Err("MissingRequiredArg", args[i].name))
         ELSE st
    ELSE IF args[i].variadic
    THEN LET Bind(st1) ==
                 BindAndDispatch(st1, ArgId(path, i),
                                 [list |-> [k \in 1..Len(st.toks) |-> TokenString(st.toks[k])]],
                                 args[i].dispatch)
         IN  CHOOSE r \in {Bind(x) : x \in {ConsumeAll(st)}} : TRUE
    ELSE LET bound == BindAndDispatch(Consume(st), ArgId(path, i),
                                      [str |-> TokenString(TokensPeek(st.toks))],
                                      args[i].dispatch)
             Rest(st1) == ArgScan(args, path, st1, i + 1)
         IN  CHOOSE r \in {Rest(x) : x \in {bound}} : TRUE

ArgGroupParse(args, path, st) == ArgScan(args, path, st, 1)

\* cmdGroup.parse(tokens): the record threaded on and the selected path.
RECURSIVE CmdGroupParse(_, _, _)
CmdGroupParse(node, path, st) ==
    LET token == TokensPeek(st.toks)
        st1 == Consume(st)
    IN  IF ~CmdsHave(node) THEN [st |-> st, selected |-> <<>>]
        ELSE IF token.Type # TokenArg
        THEN [st |-> Fail(st, Err("ExpectedCommand", TokenString(token))), selected |-> <<>>]
        ELSE IF token.Value \notin DOMAIN node.commands
        THEN [st |-> Fail(st1, Err("UnknownCommand", token.Value)), selected |-> <<>>]
        ELSE LET cmd == node.commands[token.Value]
                 here == Append(path, cmd.name)
                 st2 == [st1 EXCEPT !.log =
                            Append(@, Event("select", CmdId(path, cmd.name), token))]
                 Dispatched(sub) ==
                     [st |-> IF Halted(sub.st) \/ cmd.dispatch = "none" THEN sub.st
                             ELSE [sub.st EXCEPT
                                     !.log = Append(@, Event("hook", CmdId(path, cmd.name),
                                                             TokenEOFMarker)),
                                     !.exit = (cmd.dispatch = "exit")],
                      selected |-> <<cmd.name>> \o sub.selected]
                 Below(st3) ==
                     LET sub == IF Halted(st3) THEN [st |-> st3, selected |-> <<>>]
                                ELSE IF ArgsHave(cmd)
                                THEN [st |-> ArgGroupParse(cmd.args, here, st3),
                                      selected |-> <<>>]
                                ELSE CmdGroupParse(cmd, here, st3)
                     IN  CHOOSE r \in {Dispatched(x) : x \in {sub}} : TRUE
             IN  CHOOSE r \in {Below(x) : x \in {FlagGroupParse(cmd.flags, here, st2, FALSE)}} : TRUE

(***************************************************************************)
(* src/app.go                                                              *)
(***************************************************************************)
\* New: empty groups and the --help flag, whose hook prints the usage and
\* ends the process.  initRuns counts the validating passes of init.
New ==
    [flags |-> <<FlagClause(HelpWord, <<>>, FALSE, <<>>, TRUE, "exit")>>,
     args |-> <<>>, commands |-> <<>>, commandOrder |-> <<>>,
     initialized |-> FALSE, initRuns |-> 0]

\* The synthetic "help <command>" command of init: its required argument's
\* hook (onCommandHelp) prints the command's usage and ends the process.
HelpCommand ==
    GroupArg(CmdClause(HelpWord, "none"),
             ArgClause(CommandWord, TRUE, FALSE, "exit"))

\* init's registration of the help command, moved to the front of the order.
WithHelpCommand(a) ==
    LET b == GroupCommand(a, HelpCommand)
        l == Len(b.commandOrder) - 1
    IN  [b EXCEPT !.commandOrder =
            SubSeq(b.commandOrder, l + 1, Len(b.commandOrder))
                \o SubSeq(b.commandOrder, 1, l)]

\* The validating passes of init over the groups and then over the commands
\* (Go ranges over the command map in no fixed order; the error of any one
\* failing command may be the one returned).
InitValidate(a) ==
    LET groups == FirstErr(<<FlagGroupInit(a.flags), CmdGroupInit(a),
                             ArgGroupInit(a.args)>>)
        bad == {n \in DOMAIN a.commands : CmdInit(a.commands[n]).kind # "none"}
    IN  IF groups.kind # "none" THEN groups
        ELSE IF bad = {} THEN NoErr
        ELSE CmdInit(a.commands[CHOOSE n \in bad : TRUE])

\* An init that never validates the declared shape.
AppInitNoValidation(a) ==
    IF a.initialized THEN [app |-> a, err |-> NoErr]
    ELSE LET a0 == [a EXCEPT !.initRuns = @ + 1]
             a1 == IF DOMAIN a0.commands # {} THEN WithHelpCommand(a0) ELSE a0
         IN  [app |-> [a1 EXCEPT !.initialized = TRUE], err |-> NoErr]

\* Application.init: the Application it leaves and the error it returns.
AppInit(a) ==
    IF a.initialized THEN [app |-> a, err |-> NoErr]
    ELSE LET a0 == [a EXCEPT !.initRuns = @ + 1]
         IN  IF CmdsHave(a0) /\ ArgsHave(a0)
             THEN [app |-> a0, err |-> Err("ConflictingGrammar", <<>>)]
             ELSE LET a1 == IF DOMAIN a0.commands # {} THEN WithHelpCommand(a0) ELSE a0
                      err == InitValidate(a1)
                  IN  IF err.kind # "none" THEN [app |-> a1, err |-> err]
                      ELSE [app |-> [a1 EXCEPT !.initialized = TRUE], err |-> NoErr]

\* strings.Join(elems, " ")
RECURSIVE JoinSpace(_)
JoinSpace(elems) ==
    IF Len(elems) = 0 THEN <<>>
    ELSE IF Len(elems) = 1 THEN elems[1]
    ELSE elems[1] \o <<Space>> \o JoinSpace(Tail(elems))

\* The same with ", " (Tokens.String)
RECURSIVE JoinComma(_)
JoinComma(elems) ==
    IF Len(elems) = 0 THEN <<>>
    ELSE IF Len(elems) = 1 THEN elems[1]
    ELSE elems[1] \o <<",", Space>> \o JoinComma(Tail(elems))

\* Tokens.String
TokensString(t) ==
    <<"T", "o", "k", "e", "n", "s", "{">>
        \o JoinComma([i \in 1..Len(t) |-> TokenString(t[i])]) \o <<"}">>

\* The two phases of Application.parse, given whether help was requested:
\* the root flags, then the root arguments or else the root commands.
AppPhases(a, st, runHelp) ==
    LET AfterFlags(st1) ==
            LET Returned(sub) ==
                    [st |-> sub.st, command |-> JoinSpace(sub.selected),
                     runHelp |-> runHelp, flagErr |-> st1.err, flagRest |-> st1.toks]
                sub == IF Halted(st1) THEN [st |-> st1, selected |-> <<>>]
                       ELSE IF ArgsHave(a)
                       THEN [st |-> ArgGroupParse(a.args, <<>>, st1), selected |-> <<>>]
                       ELSE IF CmdsHave(a) THEN CmdGroupParse(a, <<>>, st1)
                       ELSE [st |-> st1, selected |-> <<>>]
            IN  CHOOSE r \in {Returned(x) : x \in {sub}} : TRUE
    IN  CHOOSE r \in {AfterFlags(x) : x \in {FlagGroupParse(a.flags, <<>>, st, runHelp)}} : TRUE

\* A parse that resolves the arguments or commands before the root flags.
AppParseFlagsLast(a, st) ==
    LET runHelp == (TokensPeek(st.toks).Value = HelpWord)
        AfterRest(sub) ==
            LET Returned(st1) ==
                    [st |-> st1, command |-> JoinSpace(sub.selected),
                     runHelp |-> runHelp, flagErr |-> st1.err, flagRest |-> st1.toks]
                flagged == IF Halted(sub.st) THEN sub.st
                           ELSE FlagGroupParse(a.flags, <<>>, sub.st, runHelp)
            IN  CHOOSE r \in {Returned(x) : x \in {flagged}} : TRUE
        first == IF ArgsHave(a)
                 THEN [st |-> ArgGroupParse(a.args, <<>>, st), selected |-> <<>>]
                 ELSE IF CmdsHave(a) THEN CmdGroupParse(a, <<>>, st)
                 ELSE [st |-> st, selected |-> <<>>]
    IN  CHOOSE r \in {AfterRest(x) : x \in {first}} : TRUE

\* A parse that never special-cases "help".
AppParseNoHelpCase(a, st) == AppPhases(a, st, FALSE)

\* Application.parse
AppParse(a, st) == AppPhases(a, st, TokensPeek(st.toks).Value = HelpWord)

\* A parse that keeps the command of a.parse whatever is left over.
ParseReturnNoGate(p) ==
    IF p.st.err.kind # "none" THEN [command |-> <<>>, err |-> p.st.err]
    ELSE [command |-> p.command, err |-> NoErr]

\* A parse that returns the command of a.parse beside its error.
ParseReturnKeepCommand(p) ==
    IF p.st.err.kind # "none" THEN [command |-> p.command, err |-> p.st.err]
    ELSE IF Len(p.st.toks) > 0
    THEN [command |-> p.command, err |-> Err("TrailingArguments", TokensString(p.st.toks))]
    ELSE [command |-> p.command, err |-> NoErr]

\* The tail of Application.Parse, after a.parse has returned `p`.
ParseReturn(p) ==
    IF p.st.err.kind # "none" THEN [command |-> <<>>, err |-> p.st.err]
    ELSE IF Len(p.st.toks) = 1
    THEN [command |-> <<>>, err |-> Err("TrailingArguments", TokensString(p.st.toks))]
    ELSE IF Len(p.st.toks) > 0
    THEN [command |-> <<>>, err |-> Err("TrailingArguments", TokensString(p.st.toks))]
    ELSE [command |-> p.command, err |-> NoErr]

\* What a Parse call leaves in `result`.  returned is FALSE when a hook ended
\* the process inside the call; initErr, tokens, runHelp, flagErr, flagRest,
\* parseErr, rest and log record the call's steps.
NoResult ==
    [called |-> FALSE, returned |-> FALSE, args |-> <<>>, command |-> <<>>,
     err |-> NoErr, initErr |-> NoErr, tokens |-> <<>>, runHelp |-> FALSE,
     flagErr |-> NoErr, flagRest |-> <<>>, parseErr |-> NoErr, rest |-> <<>>,
     log |-> <<>>]

\* Application.Parse(args) on Application a with value slots vals.
ParseCall(a, vals, args) ==
    LET AfterInit(i) ==
            LET tokens == Tokenize(args)
                AfterParse(p) ==
                    LET r == ParseReturn(p)
                    IN  [app |-> i.app, vals |-> p.st.vals, exit |-> p.st.exit,
                         result |-> [called |-> TRUE, returned |-> ~p.st.exit,
                                     args |-> args,
                                     command |-> IF p.st.exit THEN <<>> ELSE r.command,
                                     err |-> IF p.st.exit THEN NoErr ELSE r.err,
                                     initErr |-> NoErr, tokens |-> tokens,
                                     runHelp |-> p.runHelp, flagErr |-> p.flagErr,
                                     flagRest |-> p.flagRest, parseErr |-> p.st.err,
                                     rest |-> p.st.toks, log |-> p.st.log]]
            IN  IF i.err.kind # "none"
                THEN [app |-> i.app, vals |-> vals, exit |-> FALSE,
                      result |-> [NoResult EXCEPT !.called = TRUE, !.returned = TRUE,
                                    !.args = args, !.err = i.err, !.initErr = i.err]]
                ELSE CHOOSE r \in {AfterParse(x) : x \in
                         {AppParse(i.app, [toks |-> tokens, vals |-> vals, log |-> <<>>,
                                           err |-> NoErr, exit |-> FALSE])}} : TRUE
    IN  CHOOSE r \in {AfterInit(x) : x \in {AppInit(a)}} : TRUE

(***************************************************************************)
(* The lexer run: Tokenize a bounded argument list, then walk the cursor   *)
(* with Next, Peek and Return.                                             *)
(***************************************************************************)
MaxLen == 3        \* longest raw argument of the lexer run
MaxLexArgs == 1    \* longest free-form argument list of the lexer run
MaxOps == 4        \* operations (Tokenize included) applied in one lexer run

LexChars == {Dash, Equals, "a"}

RECURSIVE SeqsUpTo(_, _)
SeqsUpTo(S, n) ==
    IF n = 0 THEN {<<>>}
    ELSE LET shorter == SeqsUpTo(S, n - 1)
         IN  shorter \cup {Append(s, x) : s \in {t \in shorter : Len(t) = n - 1}, x \in S}

LexStrings == SeqsUpTo(LexChars, MaxLen)

\* The characters c1..cn given as the n separate arguments "-c1", ..., "-cn".
SplitCluster(cs) == [i \in 1..Len(cs) |-> <<Dash, cs[i]>>]

\* Free-form argument lists, and every cluster in its split form.
LexArgLists ==
    SeqsUpTo(LexStrings, MaxLexArgs)
        \cup {SplitCluster(cs) : cs \in SeqsUpTo(LexChars, MaxLen - 1)}

(***************************************************************************)
(* The declarations and argument lists explored.                           *)
(***************************************************************************)
MaxDecls == 3     \* clauses declared on one Application
MaxArgv == 2      \* longest argument list of a single Parse call
MaxParses == 2    \* Parse calls on one Application in a repeated-call run

Word(c) == <<c>>

\* The clauses a group may be given, by the command path of the group.
FlagMenu(path) ==
    IF path = <<>>
    THEN {FlagClause(Word("n"), Word("n"), TRUE, <<>>, FALSE, "log"),
          FlagClause(Word("n"), Word("n"), FALSE, Word("x"), FALSE, "none"),
          FlagClause(Word("m"), <<>>, FALSE, <<>>, FALSE, "log")}
    ELSE IF path = <<Word("c")>>
    THEN {FlagClause(Word("b"), Word("b"), FALSE, <<>>, TRUE, "log"),
          FlagClause(Word("n"), Word("n"), FALSE, Word("x"), FALSE, "log")}
    ELSE {}

ArgMenu(path) ==
    IF path \in {<<>>, <<Word("c")>>}
    THEN {ArgClause(Word("r"), TRUE, FALSE, "log"),
          ArgClause(Word("o"), FALSE, FALSE, "log"),
          ArgClause(Word("v"), FALSE, TRUE, "log")}
    ELSE {}

CmdMenu(path) ==
    IF path = <<>> THEN {CmdClause(Word("c"), "log"), CmdClause(Word("d"), "none")}
    ELSE IF path = <<Word("c")>> THEN {CmdClause(Word("s"), "log")}
    ELSE {}

Paths == {<<>>, <<Word("c")>>}

\* The clauses declared below a group owner, its own and its commands'.
RECURSIVE CountClauses(_)
RECURSIVE SumClauses(_, _)
SumClauses(node, names) ==
    IF names = {} THEN 0
    ELSE LET n == CHOOSE x \in names : TRUE
         IN  1 + CountClauses(node.commands[n]) + SumClauses(node, names \ {n})
CountClauses(node) ==
    Len(node.flags) + Len(node.args) + SumClauses(node, DOMAIN node.commands)

\* The raw arguments of the Parse calls explored.
ArgWords ==
    {HelpWord,
     <<Dash, Dash>> \o HelpWord,
     <<Dash, Dash, "n", Equals, "x">>,
     <<Dash, Dash, "m", Equals, Equals>>,
     <<Dash, "n">>,
     <<Dash, "b">>,
     Word("x"), Word("c"), Word("d"), Word("s")}

ArgLists == SeqsUpTo(ArgWords, MaxArgv)

\* The argument lists of the repeated Parse calls.
ReparseLists ==
    {<<>>, <<Word("c")>>, <<Word("x")>>, <<<<Dash, Dash, "n", Equals, "x">>>>,
     <<HelpWord, Word("c")>>}

LexIdle ==
    /\ argv = <<>>
    /\ cursor = <<>>
    /\ tok = TokenEOFMarker
    /\ saved = <<>>
    /\ trail = <<>>

AppIdle ==
    /\ app = New
    /\ values = <<>>
    /\ result = NoResult
    /\ parses = 0
    /\ exited = FALSE

Init == LexIdle /\ AppIdle

CanDeclare(path) ==
    /\ parses = 0
    /\ ~exited
    /\ HasPath(app, path)
    /\ CountClauses(app) - 1 < MaxDecls

\* group.Flag(...): a new flag clause on the group at `path`.
DeclareFlag(path, fc) ==
    /\ CanDeclare(path)
    /\ \A i \in 1..Len(NodeAt(app, path).flags) :
          /\ NodeAt(app, path).flags[i].name # fc.name
          /\ (fc.shorthand = <<>> \/ NodeAt(app, path).flags[i].shorthand # fc.shorthand)
    /\ app' = FlagAt(app, path, fc)
    /\ UNCHANGED <<values, result, parses, exited, lexvars>>

\* group.Arg(...): a new positional argument on the group at `path`.
DeclareArg(path, ac) ==
    /\ CanDeclare(path)
    /\ app' = ArgAt(app, path, ac)
    /\ UNCHANGED <<values, result, parses, exited, lexvars>>

\* group.Command(...): a new command on the group at `path`.
DeclareCommand(path, cc) ==
    /\ CanDeclare(path)
    /\ cc.name \notin DOMAIN NodeAt(app, path).commands
    /\ app' = CommandAt(app, path, cc)
    /\ UNCHANGED <<values, result, parses, exited, lexvars>>

\* Application.Parse(args)
Parse(args) ==
    /\ ~exited
    /\ \E c \in {ParseCall(app, values, args)} :
           /\ app' = c.app
           /\ values' = c.vals
           /\ result' = c.result
           /\ exited' = c.exit
    /\ parses' = parses + 1
    /\ UNCHANGED lexvars

Declare ==
    \E path \in Paths :
        \/ \E fc \in FlagMenu(path) : DeclareFlag(path, fc)
        \/ \E ac \in ArgMenu(path) : DeclareArg(path, ac)
        \/ \E cc \in CmdMenu(path) : DeclareCommand(path, cc)

\* One process: the declarations, then one Parse call (as the package-level
\* Parse of the source does).
ParseOnce == \E args \in ArgLists : parses = 0 /\ Parse(args)

Next == Declare \/ ParseOnce

Spec == Init /\ [][Next]_vars

\* One Application parsed repeatedly.
ParseAgain == \E args \in ReparseLists : parses < MaxParses /\ Parse(args)

NextReparse == Declare \/ ParseAgain

SpecReparse == Init /\ [][NextReparse]_vars

(***************************************************************************)
(* The specification of the lexer run                                      *)
(***************************************************************************)
LexInit ==
    /\ argv \in LexArgLists
    /\ cursor = <<>>
    /\ tok = TokenEOFMarker
    /\ saved = <<>>
    /\ trail = <<>>
    /\ AppIdle

LexTokenize ==
    /\ trail = <<>>
    /\ cursor' = Tokenize(argv)
    /\ trail' = <<"Tokenize">>
    /\ UNCHANGED <<argv, tok, saved, appvars>>

LexNext ==
    /\ trail # <<>>
    /\ Len(trail) < MaxOps
    /\ saved' = cursor
    /\ tok' = TokensNext(cursor)[1]
    /\ cursor' = TokensNext(cursor)[2]
    /\ trail' = Append(trail, "Next")
    /\ UNCHANGED <<argv, appvars>>

LexPeek ==
    /\ trail # <<>>
    /\ Len(trail) < MaxOps
    /\ tok' = TokensPeek(cursor)
    /\ trail' = Append(trail, "Peek")
    /\ UNCHANGED <<argv, cursor, saved, appvars>>

LexReturn ==
    /\ trail # <<>>
    /\ Len(trail) < MaxOps
    /\ cursor' = TokensReturn(cursor, tok)
    /\ trail' = Append(trail, "Return")
    /\ UNCHANGED <<argv, tok, saved, appvars>>

LexNextStep == LexTokenize \/ LexNext \/ LexPeek \/ LexReturn

SpecLex == LexInit /\ [][LexNextStep]_vars

(***************************************************************************)
(* Claims about the lexer and the cursor                                   *)
(***************************************************************************)
LastOp == IF trail = <<>> THEN "none" ELSE trail[Len(trail)]

PrevOp == IF Len(trail) < 2 THEN "none" ELSE trail[Len(trail) - 1]

\* The argument list is one cluster "-c1...cn" with n >= 1.
IsClusterArg ==
    /\ Len(argv) = 1
    /\ Len(argv[1]) >= 2
    /\ argv[1][1] = Dash

ClusterChars == Drop(argv[1], 1)

ShortTokens(cs) == [i \in 1..Len(cs) |-> Token(TokenShort, <<cs[i]>>)]

\* C4 as stated: for every sequence of characters c1..cn (n >= 1), the tokens
\* of "-c1...cn" are n ShortFlag tokens, one per character in order, and are
\* the tokens of the n separate arguments "-c1", ..., "-cn".
C4_ClusterAnyChars ==
    (LastOp = "Tokenize" /\ IsClusterArg) =>
        /\ cursor = ShortTokens(ClusterChars)
        /\ cursor = Tokenize(SplitCluster(ClusterChars))

\* C4, amended: the same for every sequence of characters none of which is
\* '-' (a '-' in the cluster makes one of the two forms start with "--").
C4_ClusterEquivalence ==
    (/\ LastOp = "Tokenize"
     /\ IsClusterArg
     /\ \A i \in 1..Len(ClusterChars) : ClusterChars[i] # Dash) =>
        /\ cursor = ShortTokens(ClusterChars)
        /\ cursor = Tokenize(SplitCluster(ClusterChars))

\* A cluster of two different characters has been tokenized.
C4_Witness ==
    /\ LastOp = "Tokenize"
    /\ argv = <<<<Dash, "a", Equals>>>>
    /\ cursor = <<Token(TokenShort, <<"a">>), Token(TokenShort, <<Equals>>)>>

\* C10: Return of the token Next yielded restores the cursor Next was applied
\* to (on the empty cursor Next yields end-of-stream and Return of it is a
\* no-op); no end-of-stream token is ever stored in a cursor; Peek returns
\* the token Next would return; Next leaves the earlier cursor value a
\* prefix-extension of what it returns, and Peek leaves the cursor as it was.
C10_CursorRoundTrip ==
    /\ (LastOp = "Next") =>
          /\ TokensReturn(cursor, tok) = saved
          /\ (saved = <<>> => (IsEOF(tok) /\ cursor = <<>>))
          /\ (saved # <<>> => (saved = <<tok>> \o cursor /\ ~IsEOF(tok)))
    /\ (LastOp = "Return" /\ PrevOp = "Next") => cursor = saved
    /\ (LastOp = "Peek") => tok = TokensNext(cursor)[1]
    /\ \A i \in 1..Len(cursor) : ~IsEOF(cursor[i])

\* Next on the empty cursor, then Return of the end-of-stream token it gave.
C10_Witness ==
    /\ LastOp = "Return"
    /\ PrevOp = "Next"
    /\ saved = <<>>
    /\ IsEOF(tok)
    /\ cursor = <<>>

(***************************************************************************)
(* Claims about the Application                                            *)
(***************************************************************************)
Log == result.log

IsHook(ev) == ev.e = "hook"

IsSelect(ev) == ev.e = "select"

\* The names of the commands the last Parse selected, outermost first.
SelectedNames ==
    LET sel == SelectSeq(Log, IsSelect)
    IN  [k \in 1..Len(sel) |-> sel[k].id[3]]

IsPrefix(p, q) == Len(p) <= Len(q) /\ \A k \in 1..Len(p) : p[k] = q[k]

\* Every declared flag clause with the path of its group.
RECURSIVE DeclaredFlags(_, _)
DeclaredFlags(node, path) ==
    {<<path, node.flags[i]>> : i \in 1..Len(node.flags)}
        \cup UNION {DeclaredFlags(node.commands[n], Append(path, n)) :
                        n \in DOMAIN node.commands}

\* Every declared argument sequence, the Application's and the commands'.
RECURSIVE DeclaredArgGroups(_)
DeclaredArgGroups(node) ==
    {node.args} \cup UNION {DeclaredArgGroups(node.commands[n]) :
                                n \in DOMAIN node.commands}

\* The last Parse call got past init and both phases without an error.
PhasesDone ==
    /\ result.called
    /\ result.returned
    /\ result.initErr = NoErr
    /\ result.parseErr = NoErr

\* C1: when root flag resolution and argument-or-command resolution have both
\* finished without error, Parse fails with "unexpected argument(s)" naming
\* the remaining tokens, and an empty command, if a token is left, and
\* returns no error if none is left.
C1_AcceptanceGate ==
    PhasesDone =>
        IF Len(result.rest) > 0
        THEN /\ result.err = Err("TrailingArguments", TokensString(result.rest))
             /\ result.command = <<>>
        ELSE result.err = NoErr

\* A bare value follows a command that declares no positional arguments.
C1_Witness ==
    /\ PhasesDone
    /\ result.args = <<Word("c"), Word("x")>>
    /\ Word("c") \in DOMAIN app.commands
    /\ app.commands[Word("c")].args = <<>>
    /\ result.rest = <<Token(TokenArg, Word("x"))>>
    /\ result.err.kind = "TrailingArguments"
    /\ result.command = <<>>

\* The names of the root flags the last Parse bound from the command line.
RootFlagsBound ==
    {Log[i].id[3] : i \in {k \in 1..Len(Log) :
        Log[k].e = "bind" /\ Log[k].id[1] = "flag" /\ Log[k].id[2] = <<>>}}

RequiredRootUnbound ==
    {app.flags[i].name : i \in {k \in 1..Len(app.flags) :
        app.flags[k].required /\ app.flags[k].name \notin RootFlagsBound}}

FirstTokenIsHelp ==
    Len(result.tokens) > 0 /\ result.tokens[1].Value = HelpWord

\* C2: root flags are resolved in help-requested mode exactly when the first
\* token's text is "help", and then Parse never fails with "required flag not
\* provided" for a root flag; otherwise a required root flag left unbound
\* when the flag scan stops makes Parse fail with that error naming such a
\* flag.
C2_RequiredUnlessHelp ==
    (result.called /\ result.initErr = NoErr) =>
        /\ result.runHelp = FirstTokenIsHelp
        /\ FirstTokenIsHelp => result.flagErr.kind # "MissingRequiredFlag"
        /\ (/\ ~FirstTokenIsHelp
            /\ result.returned
            /\ result.flagErr.kind \notin {"UnknownFlag", "MissingValue", "ConversionError"}
            /\ RequiredRootUnbound # {}) =>
               /\ result.err.kind = "MissingRequiredFlag"
               /\ result.err.text \in RequiredRootUnbound
               /\ result.err = result.flagErr

\* "help c" with a required root flag that is never given: the flags resolve
\* in help mode and the help command's hook ends the process.
C2_Witness ==
    /\ result.called
    /\ result.args = <<HelpWord, Word("c")>>
    /\ RequiredRootUnbound # {}
    /\ result.runHelp
    /\ result.flagErr = NoErr
    /\ exited

\* The name and the value of an argument "--name=value".
FirstEquals(s) == CHOOSE k \in 1..Len(s) : s[k] = Equals /\ \A m \in 1..(k - 1) : s[m] # Equals

InlineName(arg) == SubSeq(arg, 3, FirstEquals(arg) - 1)

InlineValue(arg) == SubSeq(arg, FirstEquals(arg) + 1, Len(arg))

\* The arguments of the last Parse are all "--name=value" with distinct names
\* of declared root flags that take a value.
AllInline ==
    /\ result.called
    /\ result.initErr = NoErr
    /\ Len(result.args) > 0
    /\ \A i \in 1..Len(result.args) :
          /\ HasPrefix(result.args[i], <<Dash, Dash>>)
          /\ \E k \in 3..Len(result.args[i]) : result.args[i][k] = Equals
          /\ \E f \in 1..Len(app.flags) :
                app.flags[f].name = InlineName(result.args[i]) /\ ~app.flags[f].isBool
    /\ \A i, j \in 1..Len(result.args) :
          i # j => InlineName(result.args[i]) # InlineName(result.args[j])

InlineNames == {InlineName(result.args[i]) : i \in 1..Len(result.args)}

InlineTokens ==
    /\ Len(result.tokens) = 2 * Len(result.args)
    /\ \A i \in 1..Len(result.args) :
          /\ result.tokens[2 * i - 1] = Token(TokenLong, InlineName(result.args[i]))
          /\ result.tokens[2 * i] = Token(TokenArg, InlineValue(result.args[i]))

InlineBound ==
    /\ result.flagErr = NoErr
    /\ result.flagRest = <<>>
    /\ \A i \in 1..Len(result.args) :
          /\ FlagId(<<>>, InlineName(result.args[i])) \in DOMAIN values
          /\ values[FlagId(<<>>, InlineName(result.args[i]))]
                = [str |-> InlineValue(result.args[i])]

\* C5 as stated: every list of "--name=value" arguments with distinct
\* declared names tokenizes to a LongFlag and a Value token per argument and
\* resolves with no error, no token left and each flag bound to its value.
C5_InlineAlwaysBinds == AllInline => (InlineTokens /\ InlineBound)

\* C5, amended: the same when every required root flag is among the names
\* given (a required flag the list does not name fails the resolution).
C5_InlineBinds ==
    AllInline =>
        /\ InlineTokens
        /\ (\A f \in 1..Len(app.flags) :
                app.flags[f].required => app.flags[f].name \in InlineNames)
              => InlineBound

\* Two inline flags, the second with a value that is itself '='.
C5_Witness ==
    /\ AllInline
    /\ result.args = <<<<Dash, Dash, "m", Equals, Equals>>, <<Dash, Dash, "n", Equals, "x">>>>
    /\ values[FlagId(<<>>, Word("m"))] = [str |-> <<Equals>>]
    /\ values[FlagId(<<>>, Word("n"))] = [str |-> Word("x")]
    /\ \E f \in 1..Len(app.flags) : app.flags[f].required

\* The positions of the hook events of the last Parse.
Hooks == {i \in 1..Len(Log) : IsHook(Log[i])}

\* The path of the command a command event names.
CmdPath(id) == Append(id[2], id[3])

\* The dispatch of the flag or argument clause a bind event names.
DispatchOf(id) ==
    LET node == NodeAt(app, id[2])
    IN  IF id[1] = "arg" THEN node.args[id[3]].dispatch
        ELSE LET i == CHOOSE k \in 1..Len(node.flags) : node.flags[k].name = id[3]
             IN  node.flags[i].dispatch

\* C6: a flag's (or argument's) hook is invoked immediately after the clause
\* is bound, before any later token is consumed; the hooks of root flags
\* precede every other hook; a command's hook follows every hook of its own
\* flags, arguments and selected child commands; and no hook is invoked for a
\* clause this parse did not bind (or, for a command, select).
C6_HookOrder ==
    (result.called /\ result.initErr = NoErr) =>
        /\ \A i \in Hooks :
              Log[i].id[1] \in {"flag", "arg"} =>
                  i > 1 /\ Log[i - 1] = Event("bind", Log[i].id, TokenEOFMarker)
        /\ \A i \in 1..Len(Log) :
              (Log[i].e = "bind" /\ DispatchOf(Log[i].id) # "none") =>
                  i < Len(Log) /\ Log[i + 1] = Event("hook", Log[i].id, TokenEOFMarker)
        /\ \A i, j \in Hooks :
              (/\ Log[i].id[1] = "flag" /\ Log[i].id[2] = <<>>
               /\ ~(Log[j].id[1] = "flag" /\ Log[j].id[2] = <<>>)) => i < j
        /\ \A i, j \in Hooks :
              (/\ i # j
               /\ Log[j].id[1] = "cmd"
               /\ IsPrefix(CmdPath(Log[j].id), Log[i].id[2])) => i < j
        /\ \A i \in Hooks :
              Log[i].id[1] = "cmd" =>
                  \E k \in 1..(i - 1) : Log[k].e = "select" /\ Log[k].id = Log[i].id

\* A root flag's hook, then the hook of the selected command.
C6_Witness ==
    /\ result.called
    /\ result.returned
    /\ result.err = NoErr
    /\ result.args = <<<<Dash, Dash, "m", Equals, Equals>>, Word("c")>>
    /\ SelectSeq(Log, IsHook)
          = <<Event("hook", FlagId(<<>>, Word("m")), TokenEOFMarker),
              Event("hook", CmdId(<<>>, Word("c")), TokenEOFMarker)>>

\* The declarations break a shape rule: a required argument after an optional
\* one, an argument after a variadic one, or top-level arguments together
\* with top-level commands.
ShapeViolation ==
    \/ \E args \in DeclaredArgGroups(app) : \E i, j \in 1..Len(args) :
          i < j /\ ~args[i].required /\ args[j].required
    \/ \E args \in DeclaredArgGroups(app) : \E i \in 1..Len(args) :
          args[i].variadic /\ i < Len(args)
    \/ Len(app.args) > 0 /\ DOMAIN app.commands # {}

\* C7: with such declarations every Parse call returns the initialization
\* error, for every argument list, before any token is consumed, any value
\* is bound or any hook is invoked.
C7_ShapeErrorsAtInit ==
    (result.called /\ ShapeViolation) =>
        /\ result.returned
        /\ ~exited
        /\ result.initErr.kind \in
              {"RequiredAfterOptional", "VariadicNotLast", "ConflictingGrammar"}
        /\ result.err = result.initErr
        /\ result.command = <<>>
        /\ result.tokens = <<>>
        /\ Log = <<>>
        /\ DOMAIN values = {}
        /\ ~app.initialized

\* A command whose required argument follows an optional one; the second
\* Parse call, with an empty argument list, never reaches it.
C7_Witness ==
    /\ result.called
    /\ parses = 2
    /\ result.args = <<>>
    /\ Word("c") \in DOMAIN app.commands
    /\ Len(app.commands[Word("c")].args) = 2
    /\ ~app.commands[Word("c")].args[1].required
    /\ app.commands[Word("c")].args[2].required
    /\ result.err.kind = "RequiredAfterOptional"

\* The names joined by single spaces, built from the left.
RECURSIVE SpacedUpTo(_, _)
SpacedUpTo(names, k) ==
    IF k = 0 THEN <<>>
    ELSE IF k = 1 THEN names[1]
    ELSE SpacedUpTo(names, k - 1) \o <<Space>> \o names[k]

\* The positions of the select events of the last Parse.
Selects == {i \in 1..Len(Log) : IsSelect(Log[i])}

\* C8: the command a successful Parse returns is the names of the selected
\* commands, outermost first, joined by single spaces; each is a command
\* declared at its nesting level and was consumed from one bare-value token;
\* the command is empty when the application declares no commands or resolves
\* top-level arguments; and Parse returns an empty command with every error.
C8_CommandPath ==
    (result.called /\ result.returned) =>
        /\ result.err # NoErr => result.command = <<>>
        /\ result.err = NoErr =>
              /\ result.command = SpacedUpTo(SelectedNames, Len(SelectedNames))
              /\ HasPath(app, SelectedNames)
              /\ \A i \in Selects :
                    /\ i > 1
                    /\ Log[i - 1] = Event("consume", <<>>, Token(TokenArg, Log[i].id[3]))
                    /\ Log[i].id[2] = [k \in 1..Cardinality({j \in Selects : j < i}) |->
                                          SelectedNames[k]]
        /\ (DOMAIN app.commands = {} \/ Len(app.args) > 0) => result.command = <<>>

\* A command and its subcommand are selected.
C8_Witness ==
    /\ result.called
    /\ result.returned
    /\ result.err = NoErr
    /\ result.args = <<Word("c"), Word("s")>>
    /\ result.command = <<"c", Space, "s">>

\* The paths of the groups the last Parse resolved: the Application's and
\* those of the selected commands.
ResolvedPaths ==
    {[k \in 1..n |-> SelectedNames[k]] : n \in 0..Len(SelectedNames)}

\* No token of the last Parse names the flag: none carries its long name as
\* a long flag or its short alias as a short flag.
NotNamed(fc) ==
    \A i \in 1..Len(result.tokens) :
        /\ ~(result.tokens[i].Type = TokenLong /\ result.tokens[i].Value = fc.name)
        /\ ~(result.tokens[i].Type = TokenShort /\ result.tokens[i].Value = fc.shorthand)

HasDefault(pf) ==
    /\ FlagId(pf[1], pf[2].name) \in DOMAIN values
    /\ values[FlagId(pf[1], pf[2].name)] = Convert(pf[2].isBool, pf[2].defaultValue).val

ParsedOk == result.called /\ result.returned /\ result.err = NoErr

HelpRegistrations ==
    Cardinality({i \in 1..Len(app.commandOrder) : app.commandOrder[i] = HelpWord})

\* C3: after any sequence of Parse calls, whatever their outcomes, the
\* validation of init has run exactly once, the help command is registered at
\* most once, and a second or later initialization raises no error.
C3_InitOnce ==
    /\ parses >= 1 => app.initRuns = 1
    /\ HelpRegistrations <= 1
    /\ parses >= 2 => result.initErr = NoErr

=============================================================================
